---- MODULE Spec2Model ----
(***************************************************************************)
(* The Sigma dropdown auto-selector: the shell component (App) with its    *)
(* config, status and Execute handler, and the selection script it builds  *)
(* and runs.  Two variants of the script exist in the repository:          *)
(*   createScript          (src/src/App.tsx)       retry phase only        *)
(*   generateControlScript (src/unnamed/part_001)  retry phase + observer  *)
(* A run is one evaluation of the script; its closure state (attempts, the *)
(* timers it has scheduled, its MutationObserver) is the run record.       *)
(***************************************************************************)
EXTENDS Integers, Sequences, FiniteSets, TLC

\* ------------------------------------------------------------------ bounds
MaxRuns == 2          \* script evaluations the shell performs
MaxEnv == 4           \* events of the environment: clicks on Execute, config
                      \* updates, childList mutations of the surrounding page
MaxApply == 2         \* applications of the native strategy (SpecNative)
MaxOptions == 2       \* options of the select under test (SpecNative)
MaxOptionEls == 2     \* option elements of the custom widget (SpecCustom)
MaxInitialize == 3    \* calls of the host's initialize (SpecInit)
MaxTicks == 3         \* callbacks of the polling interval (SpecInit)

RunIds == 1..MaxRuns

\* ----------------------------------------------------------------- strings
\* A JavaScript string is a sequence of one-character strings.
Undefined == <<"undefined">>          \* the value of a missing config key

IsWS(c) == c = " "
IsDigit(c) == c \in {"0", "1", "2", "3"}
DigitVal(c) == CASE c = "0" -> 0 [] c = "1" -> 1 [] c = "2" -> 2 [] c = "3" -> 3

RECURSIVE TrimStart(_)
TrimStart(s) ==
  IF s # <<>> /\ IsWS(Head(s)) THEN TrimStart(Tail(s)) ELSE s

RECURSIVE TrimEnd(_)
TrimEnd(s) ==
  IF s # <<>> /\ IsWS(s[Len(s)]) THEN TrimEnd(SubSeq(s, 1, Len(s) - 1)) ELSE s

\* String.prototype.trim
trim(s) == TrimEnd(TrimStart(s))

\* A JavaScript number that is an integer or NaN.
NaN == [nan |-> TRUE, val |-> 0]
Num(n) == [nan |-> FALSE, val |-> n]

\* a < b on JavaScript numbers: every comparison with NaN is false.
Lt(a, b) == ~a.nan /\ ~b.nan /\ a.val < b.val

RECURSIVE ParseDigits(_, _, _)
ParseDigits(s, acc, seen) ==
  IF s # <<>> /\ IsDigit(Head(s))
  THEN ParseDigits(Tail(s), acc * 10 + DigitVal(Head(s)), TRUE)
  ELSE IF seen THEN Num(acc) ELSE NaN

\* parseInt(s, 10): leading white space is skipped, then an optional sign,
\* then the longest prefix of digits; no digit at all gives NaN.
parseInt(s) ==
  LET t == TrimStart(s)
      signed == t # <<>> /\ Head(t) \in {"-", "+"}
      body == IF signed THEN Tail(t) ELSE t
      r == ParseDigits(body, 0, FALSE)
  IN IF r.nan THEN NaN
     ELSE IF signed /\ Head(t) = "-" THEN Num(0 - r.val) ELSE r

\* JavaScript truthiness of a string-or-undefined value.
Truthy(s) == s # Undefined /\ s # <<>>

\* a || b
OrElse(a, b) == IF Truthy(a) THEN a ELSE b

\* ---------------------------------------------------------------- document
\* An <option> of a native select: its value and its textContent.
Opt(v, t) == [value |-> v, text |-> t]

\* An element the resolver can return.  tag "none" stands for "no element".
\* selectedIndex is 0-based as in the DOM (-1: nothing selected).
Element(tag, options) ==
  [tag |-> tag, options |-> options,
   selectedIndex |-> IF options = <<>> THEN 0 - 1 ELSE 0]
NoElement == Element("none", <<>>)

\* An option-shaped element of a custom widget: its bounding rectangle and text.
OptionEl(w, h, t) == [width |-> w, height |-> h, text |-> t]

\* The part of the document the script reads: match[i] is the element the
\* i-th lookup of selectFirstOption finds (1: data-control-id, 2: aria-label or
\* title, 3: the first dropdown-shaped element whose closest control/filter
\* ancestor's text contains the id); optionEls are the elements matching
\* '[role="option"], [data-value], ...' in document order.
Document(e1, e2, e3, optionEls) ==
  [match |-> <<e1, e2, e3>>, optionEls |-> optionEls]

Placeholder == Opt(<<>>, <<>>)
Alpha == Opt(<<"a">>, <<" ", "A">>)
Beta == Opt(<<"b">>, <<"B">>)

EmptyDoc == Document(NoElement, NoElement, NoElement, <<>>)

\* The documents the surrounding page moves between.
Docs ==
  { EmptyDoc,
    Document(Element("SELECT", <<Placeholder, Alpha, Beta>>), NoElement, NoElement, <<>>),
    Document(Element("SELECT", <<Placeholder>>), NoElement, NoElement, <<>>),
    Document(NoElement, Element("DIV", <<>>), NoElement,
             <<OptionEl(0, 10, <<"H">>), OptionEl(10, 10, <<" ", "V">>)>>),
    Document(NoElement, NoElement, Element("DIV", <<>>), <<OptionEl(0, 0, <<"H">>)>>),
    Document(NoElement, NoElement, Element("svg", <<>>), <<>>) }

\* Mutant: the lookups in the reverse order.
resolveReversed(d) ==
  IF d.match[3].tag # "none" THEN 3
  ELSE IF d.match[2].tag # "none" THEN 2
  ELSE IF d.match[1].tag # "none" THEN 1
  ELSE 0

\* The three lookups of selectFirstOption in their order: the slot of the
\* first one that finds an element, 0 when none does.
resolve(d) ==
  IF d.match[1].tag # "none" THEN 1
  ELSE IF d.match[2].tag # "none" THEN 2
  ELSE IF d.match[3].tag # "none" THEN 3
  ELSE 0

\* ------------------------------------------------------------ the script
\* A DOM operation the script performed: op is "set" (selectedIndex), "click"
\* (the resolved element), "optclick" (an option element) or the type of a
\* dispatched event; slot is the resolved lookup, idx the index or -1.
DomOp(op, slot, idx) == [op |-> op, slot |-> slot, idx |-> idx, bubbles |-> FALSE]

\* dispatchEvent(new Event(type, {bubbles: bubbles})) on the resolved element.
EventOp(type, slot, bubbles) ==
  [op |-> type, slot |-> slot, idx |-> 0 - 1, bubbles |-> bubbles]

\* A log line kept by the model.  The lines "Attempt n ...", "Found dropdown
\* element", "Dropdown not found" and "Retrying in ..." are functions of the
\* attempt counter and are not stored.
Line(msg, label) == [msg |-> msg, label |-> label]

\* Mutant: the placeholder test with && in place of ||.
StartIndexBoth(options) ==
  IF options[1].value = <<>> /\ trim(options[1].text) = <<>> THEN 1 ELSE 0

\* The index the native branch starts at (0-based).
StartIndex(options) ==
  IF options[1].value = <<>> \/ trim(options[1].text) = <<>> THEN 1 ELSE 0

\* Mutant: the input event comes first and does not bubble.
NativeSelectInputFirst(el, slot) ==
  IF Len(el.options) > 0
  THEN LET startIndex == StartIndex(el.options)
       IN IF Len(el.options) > startIndex
          THEN [el |-> [el EXCEPT !.selectedIndex = startIndex],
                ops |-> <<DomOp("set", slot, startIndex), EventOp("input", slot, FALSE),
                          EventOp("change", slot, TRUE)>>,
                log |-> <<Line("Selected option", el.options[startIndex + 1].text)>>,
                ret |-> "true"]
          ELSE [el |-> el, ops |-> <<>>, log |-> <<>>, ret |-> "false"]
  ELSE [el |-> el, ops |-> <<>>, log |-> <<>>, ret |-> "false"]

\* Mutant: the events are dispatched whether an option was selected or not.
NativeSelectAlwaysDispatches(el, slot) ==
  IF Len(el.options) > 0 /\ Len(el.options) > StartIndex(el.options)
  THEN LET startIndex == StartIndex(el.options)
       IN [el |-> [el EXCEPT !.selectedIndex = startIndex],
           ops |-> <<DomOp("set", slot, startIndex), EventOp("change", slot, TRUE),
                     EventOp("input", slot, TRUE)>>,
           log |-> <<Line("Selected option", el.options[startIndex + 1].text)>>,
           ret |-> "true"]
  ELSE [el |-> el,
        ops |-> <<EventOp("change", slot, TRUE), EventOp("input", slot, TRUE)>>,
        log |-> <<>>, ret |-> "false"]

\* Mutant: the option already selected is skipped.
NativeSelectSkipSelected(el, slot) ==
  IF Len(el.options) > 0
  THEN LET startIndex == IF el.selectedIndex = StartIndex(el.options)
                         THEN StartIndex(el.options) + 1 ELSE StartIndex(el.options)
       IN IF Len(el.options) > startIndex
          THEN [el |-> [el EXCEPT !.selectedIndex = startIndex],
                ops |-> <<DomOp("set", slot, startIndex), EventOp("change", slot, TRUE),
                          EventOp("input", slot, TRUE)>>,
                log |-> <<Line("Selected option", el.options[startIndex + 1].text)>>,
                ret |-> "true"]
          ELSE [el |-> el, ops |-> <<>>, log |-> <<>>, ret |-> "false"]
  ELSE [el |-> el, ops |-> <<>>, log |-> <<>>, ret |-> "false"]

\* The native branch on element el found at slot: the element afterwards, the
\* DOM operations performed, the log lines and the value returned.
NativeSelect(el, slot) ==
  IF Len(el.options) > 0
  THEN LET startIndex == StartIndex(el.options)
       IN IF Len(el.options) > startIndex
          THEN [el |-> [el EXCEPT !.selectedIndex = startIndex],
                ops |-> <<DomOp("set", slot, startIndex), EventOp("change", slot, TRUE),
                          EventOp("input", slot, TRUE)>>,
                log |-> <<Line("Selected option", el.options[startIndex + 1].text)>>,
                ret |-> "true"]
          ELSE [el |-> el, ops |-> <<>>, log |-> <<>>, ret |-> "false"]
  ELSE [el |-> el, ops |-> <<>>, log |-> <<>>, ret |-> "false"]

\* The closure state of one evaluation of the script.
\*   hasObserver  the script is generateControlScript's (it has setupDOMObserver)
\*   maxRetries   CONFIG.maxRetries as baked into the script text
\*   attempts     the script's attempts variable
\*   retryTimer   setTimeout(trySelectWithRetry, retryDelay) is pending
\*   settleTimer  the 200 ms callback of the custom branch is pending
\*   observer     "none" | "connected" | "disconnected"
\*   obsTimer     the observerTimeout callback is pending
\*   records      MutationRecords queued for the observer (TRUE: addedNodes)
\*   batches      calls of the observer's callback so far
\*   faults       exceptions that left the script uncaught
NewRun(hasObserver, maxRetries) ==
  [started |-> TRUE, hasObserver |-> hasObserver, maxRetries |-> maxRetries,
   attempts |-> 0, retryTimer |-> FALSE, settleTimer |-> FALSE,
   observer |-> "none", obsTimer |-> FALSE, records |-> <<>>, batches |-> 0,
   log |-> <<>>, ops |-> <<>>, faults |-> 0]

NoRun == [NewRun(FALSE, NaN) EXCEPT !.started = FALSE]

\* Mutant: the custom branch reports failure while its 200 ms check is pending.
selectFirstOptionCustomFails(R, d) ==
  LET R1 == [R EXCEPT !.attempts = @ + 1]
      slot == resolve(d)
  IN IF slot = 0
     THEN [R |-> R1, d |-> d, ret |-> "false"]
     ELSE LET dropdown == d.match[slot]
          IN IF dropdown.tag = "SELECT"
             THEN LET n == NativeSelect(dropdown, slot)
                  IN [R |-> [R1 EXCEPT !.ops = @ \o n.ops, !.log = @ \o n.log],
                      d |-> [d EXCEPT !.match[slot] = n.el],
                      ret |-> n.ret]
             ELSE IF dropdown.tag = "svg"
             THEN [R |-> R1, d |-> d, ret |-> "throw"]
             ELSE [R |-> [R1 EXCEPT !.ops = Append(@, DomOp("click", slot, 0 - 1)),
                                    !.settleTimer = TRUE],
                   d |-> d, ret |-> "false"]

\* One call of selectFirstOption by run R on document d: the run and the
\* document afterwards and ret, "true" | "false" | "throw".
selectFirstOption(R, d) ==
  LET R1 == [R EXCEPT !.attempts = @ + 1]
      slot == resolve(d)
  IN IF slot = 0
     THEN [R |-> R1, d |-> d, ret |-> "false"]
     ELSE LET dropdown == d.match[slot]
          IN IF dropdown.tag = "SELECT"
             THEN LET n == NativeSelect(dropdown, slot)
                  IN [R |-> [R1 EXCEPT !.ops = @ \o n.ops, !.log = @ \o n.log],
                      d |-> [d EXCEPT !.match[slot] = n.el],
                      ret |-> n.ret]
             ELSE IF dropdown.tag = "svg"
             \* an SVG element has no click method: dropdown.click() throws
             THEN [R |-> R1, d |-> d, ret |-> "throw"]
             ELSE [R |-> [R1 EXCEPT !.ops = Append(@, DomOp("click", slot, 0 - 1)),
                                    !.settleTimer = TRUE],
                   d |-> d, ret |-> "true"]

\* setupDOMObserver: the observer is connected to document.body and the
\* observerTimeout callback is scheduled.
setupDOMObserver(R) ==
  [R EXCEPT !.observer = "connected", !.obsTimer = TRUE]

\* Mutant: the comparison counts the retries made, not the attempts.
RetryAgainCountsRetries(attempts, maxRetries) == Lt(Num(attempts - 1), maxRetries)

\* Mutant: the comparison off by one (attempts <= CONFIG.maxRetries).
RetryAgainLe(attempts, maxRetries) ==
  ~maxRetries.nan /\ attempts <= maxRetries.val

\* if (attempts < CONFIG.maxRetries)
RetryAgain(attempts, maxRetries) == Lt(Num(attempts), maxRetries)

\* Mutant: the observer is set up and a retry is scheduled as well.
OnExhaustedKeepsRetrying(R) ==
  LET R1 == [R EXCEPT !.log = Append(@, Line("Max retry attempts reached", <<>>))]
  IN IF R.hasObserver THEN [setupDOMObserver(R1) EXCEPT !.retryTimer = TRUE] ELSE R1

\* What trySelectWithRetry does once selectFirstOption returned false and no
\* retry is left: createScript's script only logs, generateControlScript's
\* sets up the observer.
OnExhausted(R) ==
  LET R1 == [R EXCEPT !.log = Append(@, Line("Max retry attempts reached", <<>>))]
  IN IF R.hasObserver THEN setupDOMObserver(R1) ELSE R1

\* Mutant: the retry timer is scheduled after a successful attempt too.
trySelectWithRetryNoStop(R, d) ==
  LET a == selectFirstOption(R, d)
  IN IF a.ret = "throw"
     THEN [R |-> [a.R EXCEPT !.faults = @ + 1], d |-> a.d, ret |-> "throw"]
     ELSE IF a.ret = "true"
     THEN [R |-> [a.R EXCEPT !.log = Append(@, Line("Selection completed successfully", <<>>)),
                             !.retryTimer = TRUE],
           d |-> a.d, ret |-> "done"]
     ELSE IF RetryAgain(a.R.attempts, a.R.maxRetries)
     THEN [R |-> [a.R EXCEPT !.retryTimer = TRUE], d |-> a.d, ret |-> "done"]
     ELSE [R |-> OnExhausted(a.R), d |-> a.d, ret |-> "done"]

\* One call of trySelectWithRetry (the script's first statement, or the retry
\* timer's callback).  An exception of selectFirstOption is caught by nothing
\* in the script: it ends the call, and no timer is scheduled.
trySelectWithRetry(R, d) ==
  LET a == selectFirstOption(R, d)
  IN IF a.ret = "throw"
     THEN [R |-> [a.R EXCEPT !.faults = @ + 1], d |-> a.d, ret |-> "throw"]
     ELSE IF a.ret = "true"
     THEN [R |-> [a.R EXCEPT !.log = Append(@, Line("Selection completed successfully", <<>>))],
           d |-> a.d, ret |-> "done"]
     ELSE IF RetryAgain(a.R.attempts, a.R.maxRetries)
     THEN [R |-> [a.R EXCEPT !.retryTimer = TRUE], d |-> a.d, ret |-> "done"]
     ELSE [R |-> OnExhausted(a.R), d |-> a.d, ret |-> "done"]

\* Mutant: one selectFirstOption per batch that has a record with added nodes.
observerCallbackOnce(R, d, recs) ==
  IF \E i \in 1..Len(recs) : recs[i]
  THEN LET a == selectFirstOption(R, d)
       IN IF a.ret = "throw"
          THEN [R |-> [a.R EXCEPT !.faults = @ + 1], d |-> a.d]
          ELSE IF a.ret = "true"
          THEN [R |-> [a.R EXCEPT !.observer = "disconnected",
                                  !.log = Append(@, Line("Selection completed via DOM observer", <<>>))],
                d |-> a.d]
          ELSE [R |-> a.R, d |-> a.d]
  ELSE [R |-> R, d |-> d]

\* Mutant: one selectFirstOption per record, with added nodes or without.
observerCallbackAnyRecord(R, d, recs) ==
  IF recs = <<>>
  THEN [R |-> R, d |-> d]
  ELSE LET a == selectFirstOption(R, d)
       IN IF a.ret = "throw"
          THEN [R |-> [a.R EXCEPT !.faults = @ + 1], d |-> a.d]
          ELSE IF a.ret = "true"
          THEN [R |-> [a.R EXCEPT !.observer = "disconnected",
                                  !.log = Append(@, Line("Selection completed via DOM observer", <<>>))],
                d |-> a.d]
          ELSE [R |-> a.R, d |-> a.d]

\* The MutationObserver callback on the batch recs: one selectFirstOption per
\* record that has added nodes, until one returns true.
RECURSIVE observerCallback(_, _, _)
observerCallback(R, d, recs) ==
  IF recs = <<>>
  THEN [R |-> R, d |-> d]
  ELSE IF Head(recs)
  THEN LET a == selectFirstOption(R, d)
       IN IF a.ret = "throw"
          THEN [R |-> [a.R EXCEPT !.faults = @ + 1], d |-> a.d]
          ELSE IF a.ret = "true"
          THEN [R |-> [a.R EXCEPT !.observer = "disconnected",
                                  !.log = Append(@, Line("Selection completed via DOM observer", <<>>))],
                d |-> a.d]
          ELSE observerCallback(a.R, a.d, Tail(recs))
  ELSE observerCallback(R, d, Tail(recs))

\* Mutant: the timeout callback logs but does not disconnect the observer.
observerTimeoutNoDisconnect(R) ==
  [R EXCEPT !.obsTimer = FALSE,
            !.log = Append(@, Line("DOM observer timeout reached", <<>>))]

\* The observerTimeout callback.  disconnect() drops the queued records.
observerTimeout(R) ==
  [R EXCEPT !.obsTimer = FALSE, !.observer = "disconnected", !.records = <<>>,
            !.log = Append(@, Line("DOM observer timeout reached", <<>>))]

\* Mutant: the filter looks at the width only.
VisibleOptionsWidthOnly(optionEls) ==
  SelectSeq(optionEls, LAMBDA o : o.width > 0)

\* The option elements with a non-empty bounding rectangle, in document order.
VisibleOptions(optionEls) ==
  SelectSeq(optionEls, LAMBDA o : o.width > 0 /\ o.height > 0)

\* The index in optionEls of the first visible option (0: none).
FirstVisible(optionEls) ==
  IF \E j \in 1..Len(optionEls) : optionEls[j].width > 0 /\ optionEls[j].height > 0
  THEN CHOOSE j \in 1..Len(optionEls) :
         /\ optionEls[j].width > 0 /\ optionEls[j].height > 0
         /\ \A k \in 1..(j - 1) : ~(optionEls[k].width > 0 /\ optionEls[k].height > 0)
  ELSE 0

\* The 200 ms callback of the custom branch.
settleCallback(R, d) ==
  LET visibleOptions == VisibleOptions(d.optionEls)
  IN IF Len(d.optionEls) > 0 /\ Len(visibleOptions) > 0
     THEN [R EXCEPT !.settleTimer = FALSE,
                    !.ops = Append(@, DomOp("optclick", 0, FirstVisible(d.optionEls) - 1)),
                    !.log = Append(@, Line("Selected option", trim(visibleOptions[1].text)))]
     ELSE [R EXCEPT !.settleTimer = FALSE,
                    !.log = Append(@, Line("No visible options found after opening dropdown", <<>>))]

\* ------------------------------------------------------------- the shell
VARIABLES
  variant,     \* which App is mounted: "createScript" | "generateControlScript"
  config,      \* the shell's config state (useState)
  status,      \* the shell's status line
  isLoading,   \* the shell's isLoading state
  nExec,       \* calls of executeSelection so far
  nRuns,       \* script evaluations so far
  run,         \* run[r]: the closure state of the r-th evaluation
  shellTimer,  \* shellTimer[r]: executeSelection's 1000 ms callback is pending
  doc,         \* the document
  nEnv,        \* events of the environment so far
  lateMut,     \* a mutation happened after some run had reported its end
  nsel,        \* SpecNative: the select element under test
  nout,        \* SpecNative: what the last application returned and logged
  napplied,    \* SpecNative: applications so far
  sigmaLoaded, \* SpecInit: the host's plugin API is there (window.sigma)
  pluginClient,\* SpecInit: the shell's pluginClient state (0: null)
  effectDue,   \* SpecInit: the initialization effect is to run (mount, or a
               \*           render with a changed dependency)
  interval,    \* SpecInit: the polling interval of the last effect run
  clearPending,\* SpecInit: the 10 s timeout that clears that interval is pending
  nInitialize, \* SpecInit: calls of the host's initialize so far
  nTicks       \* SpecInit: callbacks of the polling interval so far

shellVars == <<variant, config, status, isLoading, nExec, nRuns, run, shellTimer, doc,
               nEnv, lateMut>>
nativeVars == <<nsel, nout, napplied>>
initVars == <<sigmaLoaded, pluginClient, effectDue, interval, clearPending, nInitialize,
              nTicks>>
vars == <<variant, config, status, isLoading, nExec, nRuns, run, shellTimer, doc,
          nEnv, lateMut, nsel, nout, napplied, sigmaLoaded, pluginClient, effectDue,
          interval, clearPending, nInitialize, nTicks>>

TargetId == <<"d", "1">>

\* The values the retryAttempts key takes in the engine specification.
RetryStrings == {Undefined, <<"0">>, <<"1">>, <<"2">>, <<"a">>}
TargetStrings == {Undefined, <<>>, TargetId}

Config(t, r, l) == [targetControl |-> t, retryAttempts |-> r, triggerOnLoad |-> l]

\* useState's initial config.
DefaultConfig == Config(<<>>, <<"3">>, TRUE)

\* The script text, as the CONFIG it bakes in and the variant it is of.
\* The empty string is the script with empty = TRUE; parses = FALSE is a text
\* that is no JavaScript program (evaluating it raises a SyntaxError).
Script(empty, parses, id, maxRetries, hasObserver) ==
  [empty |-> empty, parses |-> parses, targetControlId |-> id,
   maxRetries |-> maxRetries, hasObserver |-> hasObserver]
EmptyScript == Script(TRUE, TRUE, <<>>, NaN, FALSE)

\* The quote character the template puts around ${config.targetControl}:
\* targetControlId: "${...}" in App.tsx, targetControlId: '${...}' in part_001.
QuoteOf(v) == IF v = "createScript" THEN "\"" ELSE "'"

\* The first position of character q in s; Len(s) + 1 when s has none.
FirstQuote(q, s) ==
  IF \E i \in 1..Len(s) : s[i] = q
  THEN CHOOSE i \in 1..Len(s) : s[i] = q /\ \A k \in 1..(i - 1) : s[k] # q
  ELSE Len(s) + 1

\* The text q s q read as a JavaScript string literal (s of letters, digits
\* and quote characters): the literal ends at the first q; the template's
\* closing quote is that q only when s has none, and otherwise what follows
\* the literal (letters, digits, a further quote) is a syntax error.
StringLiteral(q, s) ==
  LET close == FirstQuote(q, s)
  IN [ok |-> close = Len(s) + 1, val |-> SubSeq(s, 1, close - 1)]

\* parseInt(config.retryAttempts || '3', 10)
RetryAttempts(cfg) == parseInt(OrElse(cfg.retryAttempts, <<"3">>))

\* createScript (App.tsx) and generateControlScript (part_001).
createScript(cfg, v) ==
  IF ~Truthy(cfg.targetControl) THEN EmptyScript
  ELSE LET lit == StringLiteral(QuoteOf(v), cfg.targetControl)
       IN Script(FALSE, lit.ok, lit.val, RetryAttempts(cfg), v = "generateControlScript")

\* The script text is evaluated (eval, or a script element added to the
\* document): a text that does not parse runs nothing, the program's first
\* statement after its definitions is trySelectWithRetry().
evalScript(script, d) ==
  IF ~script.parses
  THEN [R |-> NoRun, d |-> d, ret |-> "throw"]
  ELSE trySelectWithRetry(NewRun(script.hasObserver, script.maxRetries), d)

\* The Execute button's disabled attribute.
ButtonDisabled == isLoading \/ ~Truthy(config.targetControl)

\* A callback of the event loop runs only when no mutation records wait for
\* delivery: those are delivered in a microtask, before the next task.
MicrotasksPending == \E r \in RunIds : run[r].records # <<>>

\* The polling interval: whether it is live, and the pluginClient its callback
\* closes over.
NoInterval == [live |-> FALSE, captured |-> 0]

\* The shell in demo mode: its initialization effect has run without a host
\* and the polling interval has been cleared.
HostSettled ==
  /\ sigmaLoaded = FALSE
  /\ pluginClient = 0
  /\ effectDue = FALSE
  /\ interval = NoInterval
  /\ clearPending = FALSE
  /\ nInitialize = 0
  /\ nTicks = 0

Init ==
  /\ variant \in {"createScript", "generateControlScript"}
  /\ config = DefaultConfig
  /\ status = IF variant = "createScript" THEN "Plugin loaded successfully"
                                          ELSE "Ready for configuration..."
  /\ isLoading = FALSE
  /\ nExec = 0
  /\ nRuns = 0
  /\ run = [r \in RunIds |-> NoRun]
  /\ shellTimer = [r \in RunIds |-> FALSE]
  /\ doc \in Docs
  /\ nEnv = 0
  /\ lateMut = FALSE
  /\ nsel = NoElement
  /\ nout = [ret |-> "none", log |-> <<>>, ops |-> <<>>]
  /\ napplied = 0
  /\ HostSettled

\* The lines that report the end of a run.
TerminalMsgs ==
  {"Selection completed successfully", "Selection completed via DOM observer",
   "DOM observer timeout reached"}
SuccessMsgs ==
  {"Selection completed successfully", "Selection completed via DOM observer"}

Reports(R) == SelectSeq(R.log, LAMBDA l : l.msg \in TerminalMsgs)
Succeeded(R) == \E i \in 1..Len(R.log) : R.log[i].msg \in SuccessMsgs
TimedOut(R) == \E i \in 1..Len(R.log) : R.log[i].msg = "DOM observer timeout reached"
Terminal(R) == Succeeded(R) \/ TimedOut(R)

\* Mutant: executeSelection without its check of config.targetControl.  The
\* script of an unconfigured shell is empty, and evaluating it does nothing.
executeSelectionUnguarded ==
  /\ ~MicrotasksPending
  /\ nEnv < MaxEnv
  /\ nEnv' = nEnv + 1
  /\ nExec' = nExec + 1
  /\ LET script == createScript(config, variant)
     IN IF script.empty
        THEN /\ status' = "Executing auto-selection..."
             /\ isLoading' = TRUE
             /\ UNCHANGED <<nRuns, run, shellTimer, doc>>
        ELSE /\ nRuns < MaxRuns
             /\ LET r == nRuns + 1
                    t == evalScript(script, doc)
                    caught == variant = "createScript" /\ t.ret = "throw"
                IN /\ nRuns' = r
                   /\ run' = [run EXCEPT ![r] = t.R]
                   /\ doc' = t.d
                   /\ status' = IF caught THEN "Error executing script"
                                          ELSE "Executing auto-selection..."
                   /\ isLoading' = ~caught
                   /\ shellTimer' = [shellTimer EXCEPT ![r] = ~caught]
  /\ UNCHANGED <<variant, config, lateMut, nativeVars, initVars>>

\* executeSelection (App.tsx) / triggerAutoSelection (part_001).  App.tsx
\* evals the script inside try/catch, so an exception of the script's first
\* trySelectWithRetry is caught here; part_001 injects a script element, whose
\* exceptions do not reach the caller.
executeSelection ==
  /\ ~MicrotasksPending
  /\ nEnv < MaxEnv
  /\ nEnv' = nEnv + 1
  /\ nExec' = nExec + 1
  /\ IF ~Truthy(config.targetControl)
     THEN /\ status' = "Please enter a target control ID first"
          /\ UNCHANGED <<isLoading, nRuns, run, shellTimer, doc>>
     ELSE /\ nRuns < MaxRuns
          /\ LET r == nRuns + 1
                 script == createScript(config, variant)
                 t == evalScript(script, doc)
                 caught == variant = "createScript" /\ t.ret = "throw"
             IN /\ nRuns' = r
                /\ run' = [run EXCEPT ![r] = t.R]
                /\ doc' = t.d
                /\ status' = IF caught THEN "Error executing script"
                                       ELSE "Executing auto-selection..."
                /\ isLoading' = ~caught
                /\ shellTimer' = [shellTimer EXCEPT ![r] = ~caught]
  /\ UNCHANGED <<variant, config, lateMut, nativeVars, initVars>>

\* executeSelection's setTimeout(..., 1000) callback.
shellTimerFires(r) ==
  /\ shellTimer[r]
  /\ ~MicrotasksPending
  /\ shellTimer' = [shellTimer EXCEPT ![r] = FALSE]
  /\ status' = IF variant = "createScript" THEN "Auto-selection executed"
                                           ELSE "Auto-selection script executed"
  /\ isLoading' = FALSE
  /\ UNCHANGED <<variant, config, nExec, nRuns, run, doc, nEnv, lateMut, nativeVars, initVars>>

\* Mutant: attempts is one variable shared by the scripts that have run.
retryTimerFiresSharedCounter(r) ==
  /\ run[r].retryTimer
  /\ ~MicrotasksPending
  /\ LET t == trySelectWithRetry([run[r] EXCEPT !.retryTimer = FALSE], doc)
     IN /\ run' = [q \in RunIds |->
                     IF q = r THEN t.R
                     ELSE IF run[q].started
                     THEN [run[q] EXCEPT !.attempts = t.R.attempts]
                     ELSE run[q]]
        /\ doc' = t.d
  /\ UNCHANGED <<variant, config, status, isLoading, nExec, nRuns, shellTimer, nEnv,
                 lateMut, nativeVars, initVars>>

\* The retry timer of run r fires: trySelectWithRetry runs again.
retryTimerFires(r) ==
  /\ run[r].retryTimer
  /\ ~MicrotasksPending
  /\ LET t == trySelectWithRetry([run[r] EXCEPT !.retryTimer = FALSE], doc)
     IN /\ run' = [run EXCEPT ![r] = t.R]
        /\ doc' = t.d
  /\ UNCHANGED <<variant, config, status, isLoading, nExec, nRuns, shellTimer, nEnv,
                 lateMut, nativeVars, initVars>>

\* The queued mutation records of run r's observer are delivered.
deliverMutations(r) ==
  /\ run[r].observer = "connected"
  /\ run[r].records # <<>>
  /\ LET t == observerCallback([run[r] EXCEPT !.records = <<>>, !.batches = @ + 1],
                                doc, run[r].records)
     IN /\ run' = [run EXCEPT ![r] = t.R]
        /\ doc' = t.d
  /\ UNCHANGED <<variant, config, status, isLoading, nExec, nRuns, shellTimer, nEnv,
                 lateMut, nativeVars, initVars>>

\* The observerTimeout timer of run r fires.
observerTimeoutFires(r) ==
  /\ run[r].obsTimer
  /\ ~MicrotasksPending
  /\ run' = [run EXCEPT ![r] = observerTimeout(run[r])]
  /\ UNCHANGED <<variant, config, status, isLoading, nExec, nRuns, shellTimer, doc, nEnv, lateMut, nativeVars, initVars>>

\* The 200 ms timer of run r's custom branch fires.
settleTimerFires(r) ==
  /\ run[r].settleTimer
  /\ ~MicrotasksPending
  /\ run' = [run EXCEPT ![r] = settleCallback(run[r], doc)]
  /\ UNCHANGED <<variant, config, status, isLoading, nExec, nRuns, shellTimer, doc, nEnv, lateMut, nativeVars, initVars>>

\* d has an element, or more option elements, where c has none.
Appears(c, d) ==
  \/ \E i \in 1..3 : c.match[i].tag = "none" /\ d.match[i].tag # "none"
  \/ Len(d.optionEls) > Len(c.optionEls)

\* The surrounding page changes the document by one childList mutation; each
\* connected observer queues its record (added: the record has addedNodes).
pageMutates(d, added) ==
  /\ nEnv < MaxEnv
  /\ Appears(doc, d) => added
  /\ doc' = d
  /\ nEnv' = nEnv + 1
  /\ run' = [r \in RunIds |->
               IF run[r].observer = "connected"
               THEN [run[r] EXCEPT !.records = Append(@, added)]
               ELSE run[r]]
  /\ lateMut' = (lateMut \/ \E r \in RunIds : Terminal(run[r]))
  /\ UNCHANGED <<variant, config, status, isLoading, nExec, nRuns, shellTimer, nativeVars, initVars>>

\* The callback given to client.config.subscribe.
subscribeCallback(newConfig) ==
  /\ nEnv < MaxEnv
  /\ ~MicrotasksPending
  /\ config' = newConfig
  /\ status' = IF Truthy(newConfig.targetControl) THEN "Configured to monitor" ELSE status
  /\ nEnv' = nEnv + 1
  /\ UNCHANGED <<variant, isLoading, nExec, nRuns, run, shellTimer, doc, lateMut, nativeVars, initVars>>

\* updateConfig from the Target Control ID input (demo mode).
updateConfig(value) ==
  /\ nEnv < MaxEnv
  /\ ~MicrotasksPending
  /\ config' = [config EXCEPT !.targetControl = value]
  /\ nEnv' = nEnv + 1
  /\ UNCHANGED <<variant, status, isLoading, nExec, nRuns, run, shellTimer, doc, lateMut,
                 nativeVars, initVars>>

Next ==
  \/ executeSelection
  \/ \E r \in RunIds : shellTimerFires(r)
  \/ \E r \in RunIds : retryTimerFires(r)
  \/ \E r \in RunIds : deliverMutations(r)
  \/ \E r \in RunIds : observerTimeoutFires(r)
  \/ \E r \in RunIds : settleTimerFires(r)
  \/ \E d \in Docs, added \in BOOLEAN : pageMutates(d, added)
  \/ \E t \in TargetStrings, a \in RetryStrings, l \in BOOLEAN :
       subscribeCallback(Config(t, a, l))
  \/ \E t \in {<<>>, TargetId} : updateConfig(t)

Spec == Init /\ [][Next]_vars

\* The event loop runs every callback that is due: a pending timer fires, and
\* queued mutation records are delivered.  Nothing is assumed of the user or
\* the surrounding page.
Fairness ==
  \A r \in RunIds :
    /\ WF_vars(shellTimerFires(r))
    /\ WF_vars(retryTimerFires(r))
    /\ WF_vars(deliverMutations(r))
    /\ WF_vars(observerTimeoutFires(r))
    /\ WF_vars(settleTimerFires(r))

SpecLive == Init /\ [][Next]_vars /\ Fairness

\* ------------------------------------------- the native branch on its own
\* SpecNative applies the native branch of selectFirstOption to one select
\* element, over every option list of at most MaxOptions options.
OptValues == {<<>>, <<"a">>}
OptTexts == {<<>>, <<" ">>, <<"A">>, <<" ", "A">>}
Options == {Opt(v, t) : v \in OptValues, t \in OptTexts}
OptionLists == UNION {[1..n -> Options] : n \in 0..MaxOptions}

InitNative ==
  /\ variant = "createScript"
  /\ config = DefaultConfig
  /\ status = "Plugin loaded successfully"
  /\ isLoading = FALSE
  /\ nExec = 0
  /\ nRuns = 0
  /\ run = [r \in RunIds |-> NoRun]
  /\ shellTimer = [r \in RunIds |-> FALSE]
  /\ doc = EmptyDoc
  /\ nEnv = 0
  /\ lateMut = FALSE
  /\ \E options \in OptionLists : nsel = Element("SELECT", options)
  /\ nout = [ret |-> "none", log |-> <<>>, ops |-> <<>>]
  /\ napplied = 0
  /\ HostSettled

\* selectFirstOption's native branch runs on the element.
applyNative ==
  /\ napplied < MaxApply
  /\ LET n == NativeSelect(nsel, 1)
     IN /\ nsel' = n.el
        /\ nout' = [ret |-> n.ret, log |-> n.log, ops |-> n.ops]
  /\ napplied' = napplied + 1
  /\ UNCHANGED <<shellVars, initVars>>

\* The user picks option i of the element.
userPicks(i) ==
  /\ i \in 0..(Len(nsel.options) - 1)
  /\ i # nsel.selectedIndex
  /\ nsel' = [nsel EXCEPT !.selectedIndex = i]
  /\ UNCHANGED <<nout, napplied>>
  /\ UNCHANGED <<shellVars, initVars>>

NextNative ==
  \/ applyNative
  \/ \E i \in 0..(MaxOptions - 1) : userPicks(i)

SpecNative == InitNative /\ [][NextNative]_vars

\* ------------------------------------------- the custom branch on its own
\* SpecCustom runs the script on a custom widget found by the second lookup,
\* over every list of at most MaxOptionEls option elements.
OptionElSizes == {0, 10}
OptionElTexts == {<<"H", " ">>, <<" ", "V">>}
OptionEls == {OptionEl(w, h, t) : w \in OptionElSizes, h \in OptionElSizes, t \in OptionElTexts}
OptionElLists == UNION {[1..n -> OptionEls] : n \in 0..MaxOptionEls}
CustomDocs ==
  {Document(NoElement, Element("DIV", <<>>), NoElement, els) : els \in OptionElLists}

InitCustom ==
  /\ variant \in {"createScript", "generateControlScript"}
  /\ config = Config(TargetId, <<"1">>, TRUE)
  /\ status = "Configured to monitor"
  /\ isLoading = FALSE
  /\ nExec = 0
  /\ nRuns = 0
  /\ run = [r \in RunIds |-> NoRun]
  /\ shellTimer = [r \in RunIds |-> FALSE]
  /\ doc \in CustomDocs
  /\ nEnv = 0
  /\ lateMut = FALSE
  /\ nsel = NoElement
  /\ nout = [ret |-> "none", log |-> <<>>, ops |-> <<>>]
  /\ napplied = 0
  /\ HostSettled

NextCustom ==
  \/ executeSelection
  \/ \E r \in RunIds : settleTimerFires(r)
  \/ \E r \in RunIds : shellTimerFires(r)

SpecCustom == InitCustom /\ [][NextCustom]_vars

\* ------------------------------------------------- the lookups on their own
\* SpecResolve applies the three lookups of selectFirstOption to every document
\* in which each lookup finds nothing, a select, a div or an svg element.
ResolveEls ==
  {NoElement, Element("SELECT", <<Placeholder, Alpha>>), Element("DIV", <<>>),
   Element("svg", <<>>)}
ResolveDocs ==
  {Document(e1, e2, e3, <<>>) : e1 \in ResolveEls, e2 \in ResolveEls, e3 \in ResolveEls}

InitResolve ==
  /\ variant = "createScript"
  /\ config = DefaultConfig
  /\ status = "Plugin loaded successfully"
  /\ isLoading = FALSE
  /\ nExec = 0
  /\ nRuns = 0
  /\ run = [r \in RunIds |-> NoRun]
  /\ shellTimer = [r \in RunIds |-> FALSE]
  /\ doc \in ResolveDocs
  /\ nEnv = 0
  /\ lateMut = FALSE
  /\ nsel = NoElement
  /\ nout = [ret |-> "none", log |-> <<>>, ops |-> <<>>]
  /\ napplied = 0
  /\ HostSettled

\* The lookups of selectFirstOption run on the document: nsel is the element
\* they leave in dropdown, nout.ops names the lookup that found it.
applyResolve ==
  /\ napplied < MaxApply
  /\ LET slot == resolve(doc)
     IN /\ nsel' = IF slot = 0 THEN NoElement ELSE doc.match[slot]
        /\ nout' = [ret |-> IF slot = 0 THEN "false" ELSE "true", log |-> <<>>,
                    ops |-> <<DomOp("resolve", slot, 0 - 1)>>]
  /\ napplied' = napplied + 1
  /\ UNCHANGED <<shellVars, initVars>>

NextResolve == applyResolve

SpecResolve == InitResolve /\ [][NextResolve]_vars

\* ------------------------------------------------ attempts that fail
\* SpecFail runs the script on documents in which every attempt fails: no
\* element, a select without options, a select with a placeholder only, and a
\* select whose only option has an empty value.
FailDocs ==
  { EmptyDoc,
    Document(Element("SELECT", <<>>), NoElement, NoElement, <<>>),
    Document(Element("SELECT", <<Placeholder>>), NoElement, NoElement, <<>>),
    Document(NoElement, Element("SELECT", <<Opt(<<>>, <<"A">>)>>), NoElement, <<>>) }

InitFail ==
  /\ variant \in {"createScript", "generateControlScript"}
  /\ \E a \in {<<"0">>, <<"1">>, <<"2">>} : config = Config(TargetId, a, TRUE)
  /\ status = "Configured to monitor"
  /\ isLoading = FALSE
  /\ nExec = 0
  /\ nRuns = 0
  /\ run = [r \in RunIds |-> NoRun]
  /\ shellTimer = [r \in RunIds |-> FALSE]
  /\ doc \in FailDocs
  /\ nEnv = 0
  /\ lateMut = FALSE
  /\ nsel = NoElement
  /\ nout = [ret |-> "none", log |-> <<>>, ops |-> <<>>]
  /\ napplied = 0
  /\ HostSettled

NextFail ==
  \/ executeSelection
  \/ \E r \in RunIds : shellTimerFires(r)
  \/ \E r \in RunIds : retryTimerFires(r)
  \/ \E r \in RunIds : deliverMutations(r)
  \/ \E r \in RunIds : observerTimeoutFires(r)
  \/ \E d \in FailDocs, added \in BOOLEAN : pageMutates(d, added)

SpecFail == InitFail /\ [][NextFail]_vars

\* ------------------------------------------- the initialization effect
\* SpecInit is the shell from its mount on: the effect that looks for the
\* host's plugin API, its polling interval and the timeout that clears it.
\* A client is the number of the initialize call that returned it; the host
\* returns a new client or the one it returned before.
InitMount ==
  /\ variant \in {"createScript", "generateControlScript"}
  /\ config = DefaultConfig
  /\ status = IF variant = "createScript" THEN "Plugin loaded successfully"
                                          ELSE "Ready for configuration..."
  /\ isLoading = FALSE
  /\ nExec = 0
  /\ nRuns = 0
  /\ run = [r \in RunIds |-> NoRun]
  /\ shellTimer = [r \in RunIds |-> FALSE]
  /\ doc = EmptyDoc
  /\ nEnv = 0
  /\ lateMut = FALSE
  /\ nsel = NoElement
  /\ nout = [ret |-> "none", log |-> <<>>, ops |-> <<>>]
  /\ napplied = 0
  /\ sigmaLoaded \in BOOLEAN
  /\ pluginClient = 0
  /\ effectDue = TRUE
  /\ interval = NoInterval
  /\ clearPending = FALSE
  /\ nInitialize = 0
  /\ nTicks = 0

\* initializePlugin of App.tsx: with the host there, initialize is called and
\* its client stored by setPluginClient; without, the status says demo mode.
initializePlugin(fresh) ==
  IF sigmaLoaded
  THEN /\ nInitialize < MaxInitialize
       /\ nInitialize' = nInitialize + 1
       /\ pluginClient' = IF fresh \/ pluginClient = 0 THEN nInitialize + 1
                                                       ELSE pluginClient
       /\ status' = "Connected to Sigma - ready for configuration"
  ELSE /\ status' = "Demo mode - configure settings below"
       /\ UNCHANGED <<nInitialize, pluginClient>>

\* The initialization effect runs.  App.tsx: dependency [pluginClient]; the
\* cleanup of the run before clears its interval, initializePlugin is called,
\* a new interval and its 10 s timeout are set, and the effect is due again
\* when setPluginClient changed the state.  part_001: dependency [], no
\* interval; initialize is called once.
initEffect(fresh) ==
  /\ effectDue
  /\ IF variant = "createScript"
     THEN /\ initializePlugin(fresh)
          /\ interval' = [live |-> TRUE, captured |-> pluginClient]
          /\ clearPending' = TRUE
          /\ effectDue' = (pluginClient' # pluginClient)
     ELSE /\ IF sigmaLoaded
             THEN /\ nInitialize' = nInitialize + 1
                  /\ pluginClient' = nInitialize + 1
                  /\ status' = "Plugin initialized successfully"
             ELSE /\ status' = "Running in demo mode - configure settings below"
                  /\ UNCHANGED <<nInitialize, pluginClient>>
          /\ effectDue' = FALSE
          /\ UNCHANGED <<interval, clearPending>>
  /\ UNCHANGED <<variant, config, isLoading, nExec, nRuns, run, shellTimer, doc, nEnv,
                 lateMut, nativeVars, sigmaLoaded, nTicks>>

\* The callback of the polling interval: its closure's pluginClient decides
\* between another initializePlugin and clearInterval.
intervalFires(fresh) ==
  /\ interval.live
  /\ ~effectDue
  /\ nTicks < MaxTicks
  /\ nTicks' = nTicks + 1
  /\ IF interval.captured = 0
     THEN /\ initializePlugin(fresh)
          /\ effectDue' = (pluginClient' # pluginClient)
          /\ UNCHANGED interval
     ELSE /\ interval' = [interval EXCEPT !.live = FALSE]
          /\ UNCHANGED <<pluginClient, nInitialize, status, effectDue>>
  /\ UNCHANGED <<variant, config, isLoading, nExec, nRuns, run, shellTimer, doc, nEnv,
                 lateMut, nativeVars, sigmaLoaded, clearPending>>

\* setTimeout(() => clearInterval(interval), 10000)
intervalTimeoutFires ==
  /\ clearPending
  /\ ~effectDue
  /\ clearPending' = FALSE
  /\ interval' = [interval EXCEPT !.live = FALSE]
  /\ UNCHANGED <<shellVars, nativeVars, sigmaLoaded, pluginClient, effectDue,
                 nInitialize, nTicks>>

\* The host's plugin API appears (Sigma loads it asynchronously).
sigmaLoads ==
  /\ ~sigmaLoaded
  /\ sigmaLoaded' = TRUE
  /\ UNCHANGED <<shellVars, nativeVars, pluginClient, effectDue, interval, clearPending,
                 nInitialize, nTicks>>

\* The host delivers a configuration to the callback subscribed by
\* initializePlugin.
hostSendsConfig(newConfig) ==
  /\ pluginClient # 0
  /\ subscribeCallback(newConfig)

NextInit ==
  \/ \E fresh \in BOOLEAN : initEffect(fresh)
  \/ \E t \in TargetStrings, a \in RetryStrings, l \in BOOLEAN :
       hostSendsConfig(Config(t, a, l))
  \/ \E fresh \in BOOLEAN : intervalFires(fresh)
  \/ intervalTimeoutFires
  \/ sigmaLoads

SpecInit == InitMount /\ [][NextInit]_vars

\* ------------------------------------- two widgets in one document
\* SpecOwner runs the script on a custom widget found by the second lookup in
\* a document that holds option-shaped elements of that widget and of another
\* one: owner is the match slot of the widget an option element descends from,
\* 0 for an element of a widget the lookups do not find.
OwnedOptionEl(w, owner) == [width |-> w, height |-> 10, text |-> <<"V">>, owner |-> owner]
OwnedOptionEls == {OwnedOptionEl(w, o) : w \in OptionElSizes, o \in {0, 2}}
OwnedOptionElLists == UNION {[1..n -> OwnedOptionEls] : n \in 0..MaxOptionEls}
OwnerDocs ==
  {Document(NoElement, Element("DIV", <<>>), NoElement, els) : els \in OwnedOptionElLists}

InitOwner ==
  /\ variant \in {"createScript", "generateControlScript"}
  /\ config = Config(TargetId, <<"1">>, TRUE)
  /\ status = "Configured to monitor"
  /\ isLoading = FALSE
  /\ nExec = 0
  /\ nRuns = 0
  /\ run = [r \in RunIds |-> NoRun]
  /\ shellTimer = [r \in RunIds |-> FALSE]
  /\ doc \in OwnerDocs
  /\ nEnv = 0
  /\ lateMut = FALSE
  /\ nsel = NoElement
  /\ nout = [ret |-> "none", log |-> <<>>, ops |-> <<>>]
  /\ napplied = 0
  /\ HostSettled

NextOwner ==
  \/ executeSelection
  \/ \E r \in RunIds : settleTimerFires(r)
  \/ \E r \in RunIds : shellTimerFires(r)

SpecOwner == InitOwner /\ [][NextOwner]_vars

\* ------------------------------------------ the two scripts side by side
\* SpecEquiv evaluates the script of createScript (run 1) and the script of
\* generateControlScript (run 2) for one config on one sequence of documents:
\* both are started on the same document, and their retry timers, set at the
\* same instants with the same CONFIG.retryDelay, fire together.
ApostropheId == <<"d", "'">>
EquivTargets == {TargetId, ApostropheId}
EquivRetries == {<<"0">>, <<"1">>, <<"2">>}

InitEquiv ==
  /\ variant = "createScript"
  /\ config \in {Config(t, a, TRUE) : t \in EquivTargets, a \in EquivRetries}
  /\ status = "Configured to monitor"
  /\ isLoading = FALSE
  /\ nExec = 0
  /\ nRuns = 0
  /\ run = [r \in RunIds |-> NoRun]
  /\ shellTimer = [r \in RunIds |-> FALSE]
  /\ doc \in Docs
  /\ nEnv = 0
  /\ lateMut = FALSE
  /\ nsel = NoElement
  /\ nout = [ret |-> "none", log |-> <<>>, ops |-> <<>>]
  /\ napplied = 0
  /\ HostSettled

\* Both script texts are built from the config and evaluated on the document.
startBoth ==
  /\ nRuns = 0
  /\ LET tC == evalScript(createScript(config, "createScript"), doc)
         tG == evalScript(createScript(config, "generateControlScript"), doc)
     IN /\ run' = [r \in RunIds |-> IF r = 1 THEN tC.R ELSE IF r = 2 THEN tG.R ELSE run[r]]
        /\ doc' = IF tC.R.started THEN tC.d ELSE tG.d
  /\ nRuns' = 2
  /\ UNCHANGED <<variant, config, status, isLoading, nExec, shellTimer, nEnv, lateMut,
                 nativeVars, initVars>>

\* The retry timers of the two scripts fire: trySelectWithRetry runs in each
\* script that has one pending.
retryBoth ==
  /\ \E r \in {1, 2} : run[r].retryTimer
  /\ LET t(r) == trySelectWithRetry([run[r] EXCEPT !.retryTimer = FALSE], doc)
     IN /\ run' = [r \in RunIds |-> IF run[r].retryTimer THEN t(r).R ELSE run[r]]
        /\ doc' = IF run[1].retryTimer THEN t(1).d ELSE t(2).d
  /\ UNCHANGED <<variant, config, status, isLoading, nExec, nRuns, shellTimer, nEnv,
                 lateMut, nativeVars, initVars>>

NextEquiv ==
  \/ startBoth
  \/ retryBoth
  \/ \E d \in Docs, added \in BOOLEAN : pageMutates(d, added)

SpecEquiv == InitEquiv /\ [][NextEquiv]_vars

\* ================================================================ claims
Max(a, b) == IF a > b THEN a ELSE b

\* Run r sets up its observer in this step: the retry phase ends without success.
EntersObserver(r) == run[r].observer = "none" /\ run'[r].observer = "connected"

\* C1 (as stated): with maxRetries = N, when every attempt fails, exactly N+1
\* calls of selectFirstOption have been made when the observer is set up.
C1_AttemptsBeforeObserverNPlus1 ==
  [][\A r \in RunIds :
       (EntersObserver(r) /\ ~run'[r].maxRetries.nan)
         => run'[r].attempts = run'[r].maxRetries.val + 1]_vars

\* C1 (amended): with an integer maxRetries = N, when every attempt fails,
\* exactly max(N, 1) calls of selectFirstOption have been made when the
\* observer is set up.
C1_AttemptsBeforeObserver ==
  [][\A r \in RunIds :
       (EntersObserver(r) /\ ~run'[r].maxRetries.nan)
         => run'[r].attempts = Max(run'[r].maxRetries.val, 1)]_vars

\* C1 witness: a run with maxRetries = 2 observes after two failed attempts.
C1_Witness ==
  \E r \in RunIds :
    /\ run[r].observer = "connected"
    /\ run[r].maxRetries = Num(2)
    /\ run[r].attempts = 2

\* The claimed placeholder tests on the first option, stated on the characters.
Blank(t) == \A i \in 1..Len(t) : t[i] = " "
FirstIsEmptyBoth(options) == options[1].value = <<>> /\ Blank(options[1].text)
FirstIsEmptyEither(options) == options[1].value = <<>> \/ Blank(options[1].text)

\* What an application of the native branch did, given the index it should target.
NativeTargets(target) ==
  IF Len(nsel.options) > target
  THEN nout.ret = "true" /\ nout.ops[1] = DomOp("set", 1, target)
  ELSE nout.ret = "false" /\ nout.ops = <<>>

\* C2 (as stated): on a non-empty option list the native branch targets index 1
\* exactly when the first option has an empty value and an empty trimmed text,
\* and index 0 otherwise.
C2_StartIndexBothEmpty ==
  (nout.ret # "none" /\ nsel.options # <<>>)
    => NativeTargets(IF FirstIsEmptyBoth(nsel.options) THEN 1 ELSE 0)

\* C2 (amended): on a non-empty option list the native branch targets index 1
\* exactly when the first option has an empty value or an empty trimmed text,
\* and index 0 otherwise.
C2_StartIndexEitherEmpty ==
  (nout.ret # "none" /\ nsel.options # <<>>)
    => NativeTargets(IF FirstIsEmptyEither(nsel.options) THEN 1 ELSE 0)

\* C2 witness: a first option with an empty value and a non-empty text was
\* skipped, and index 1 selected.
C2_Witness ==
  /\ nout.ret = "true"
  /\ Len(nsel.options) = 2
  /\ nsel.options[1].value = <<>>
  /\ ~Blank(nsel.options[1].text)
  /\ nout.ops[1] = DomOp("set", 1, 1)

\* Nothing of run R is pending: no timer of the retry or observer phase, and no
\* connected observer.
Quiescent(R) == ~R.retryTimer /\ ~R.obsTimer /\ R.observer # "connected"

\* C3: a started run in which no attempt threw and of which nothing is pending
\* any more has reached Succeeded or TimedOut (no run stops short of a terminal
\* state).
C3_StoppedRunIsTerminal ==
  \A r \in RunIds :
    (run[r].started /\ run[r].faults = 0 /\ Quiescent(run[r])) => Terminal(run[r])

\* C4: once a run has reported its end (success or observer timeout), no step
\* calls selectFirstOption for it again, whatever the page mutates afterwards.
C4_NoAttemptAfterTerminal ==
  [][\A r \in RunIds : Terminal(run[r]) => run'[r].attempts = run[r].attempts]_vars

\* C4 witness: the page mutated the document after the only run had timed out
\* in its observer phase.
C4_Witness ==
  /\ nRuns = 1
  /\ TimedOut(run[1])
  /\ run[1].observer = "disconnected"
  /\ lateMut

\* C5: a run logs at most one terminal report (a success line or the timeout
\* line, never both).
C5_AtMostOneReport ==
  \A r \in RunIds : Len(Reports(run[r])) <= 1

\* C6: while a run is terminal none of its timers is pending and its observer
\* is not connected.
C6_NothingPendingWhenTerminal ==
  \A r \in RunIds :
    Terminal(run[r])
      => /\ ~run[r].retryTimer
         /\ ~run[r].obsTimer
         /\ ~run[r].settleTimer
         /\ run[r].observer # "connected"

\* C7: when an attempt of a run throws, the run goes on: after that step its
\* retry timer is pending or its observer is connected.
C7_FaultIsRecovered ==
  [][\A r \in RunIds :
       run'[r].faults > run[r].faults
         => (run'[r].retryTimer \/ run'[r].observer = "connected")]_vars

\* The retryAttempts strings the claim calls numeric: an optional sign and one
\* or more digits, white space around them aside.
IsNumeric(s) ==
  /\ s # Undefined
  /\ LET t == trim(s)
         body == IF t # <<>> /\ Head(t) \in {"-", "+"} THEN Tail(t) ELSE t
     IN body # <<>> /\ \A i \in 1..Len(body) : IsDigit(body[i])

\* C8: for a retryAttempts that is not numeric (missing, empty or text that is
\* no integer) the script is built with maxRetries = 3.
C8_NonNumericDefaultsTo3 ==
  (Truthy(config.targetControl) /\ ~IsNumeric(config.retryAttempts))
    => createScript(config, variant).maxRetries = Num(3)

\* C9: while the target control id is missing or empty, the script is empty, no
\* step starts a run or gives an unstarted run an attempt, a timer or an
\* observer, and a call of executeSelection only sets the not-configured status.
C9_NotConfigured ==
  [][~Truthy(config.targetControl)
       => /\ createScript(config, variant) = EmptyScript
          /\ nRuns' = nRuns
          /\ \A r \in RunIds :
               ~run[r].started => (run'[r] = run[r] /\ shellTimer'[r] = shellTimer[r])
          /\ nExec' # nExec
               => /\ status' = "Please enter a target control ID first"
                  /\ isLoading' = isLoading
                  /\ run' = run
                  /\ shellTimer' = shellTimer
                  /\ doc' = doc]_vars

\* C9 witness: executeSelection was called on an unconfigured shell.
C9_Witness ==
  /\ ~Truthy(config.targetControl)
  /\ nExec > 0
  /\ nRuns = 0
  /\ status = "Please enter a target control ID first"

\* C10: the native branch applied to an element that a successful application
\* left selected at the start index succeeds again, logs the same label and
\* leaves the selected index as it is.
C10_NativeIdempotent ==
  [][(/\ napplied' = napplied + 1
      /\ nout.ret = "true"
      /\ nsel.selectedIndex = nout.ops[1].idx)
       => /\ nout'.ret = "true"
          /\ nout'.log = nout.log
          /\ nsel'.selectedIndex = nsel.selectedIndex]_vars

\* C10 witness: a second application on an element selected at the start index.
C10_Witness ==
  /\ napplied = 2
  /\ nout.ret = "true"
  /\ nsel.selectedIndex = nout.ops[1].idx
  /\ nsel.selectedIndex = 1

\* Run r is started by this step (the script's first trySelectWithRetry runs).
Starts(r) == ~run[r].started /\ run'[r].started

\* The option list has an option at the index the native branch starts at.
HasSelectable(options) ==
  options # <<>> /\ Len(options) > (IF FirstIsEmptyEither(options) THEN 1 ELSE 0)

\* Run R succeeded at its first attempt and holds neither a retry timer nor an
\* observer.
SucceededAtOnce(R) ==
  /\ R.attempts = 1
  /\ Succeeded(R)
  /\ ~R.retryTimer
  /\ R.observer = "none"
  /\ ~R.obsTimer

\* C11: a run started while the data-attribute lookup finds a native select with
\* a selectable option succeeds at attempt 1 (on the options "", Alpha, Beta it
\* selects index 1 and logs Alpha's text), and neither then nor later has a
\* retry timer or an observer.
C11_NativeSucceedsAtOnce ==
  [][\A r \in RunIds :
       /\ (/\ Starts(r)
           /\ doc.match[1].tag = "SELECT"
           /\ HasSelectable(doc.match[1].options))
            => /\ SucceededAtOnce(run'[r])
               /\ doc.match[1].options = <<Placeholder, Alpha, Beta>>
                    => /\ doc'.match[1].selectedIndex = 1
                       /\ run'[r].log[1] = Line("Selected option", Alpha.text)
       /\ SucceededAtOnce(run[r]) => SucceededAtOnce(run'[r])]_vars

\* C11 witness: a run has selected index 1 of the select with options "", Alpha,
\* Beta at its first attempt, and a mutation of the page came after it.
C11_Witness ==
  \E r \in RunIds :
    /\ SucceededAtOnce(run[r])
    /\ run[r].ops[1] = DomOp("set", 1, 1)
    /\ run[r].log[1] = Line("Selected option", Alpha.text)
    /\ lateMut

\* The option element has a non-zero width and a non-zero height.
Shown(o) == o.width # 0 /\ o.height # 0

\* The deferred check of run r's custom branch runs in this step.
SettleStep(r) == run[r].settleTimer /\ ~run'[r].settleTimer

\* What a step appended to a sequence.
Appended(old, new) == SubSeq(new, Len(old) + 1, Len(new))

\* C12: the deferred check of the custom branch clicks exactly one option
\* element, the first in document order whose width and height are both
\* non-zero, and logs that element's trimmed text as selected; when no option
\* element has both non-zero it clicks nothing and logs no selection.
C12_ClicksFirstVisible ==
  [][\A r \in RunIds :
       SettleStep(r)
         => LET els == doc.optionEls
                clicks == Appended(run[r].ops, run'[r].ops)
                lines == Appended(run[r].log, run'[r].log)
            IN IF \E j \in 1..Len(els) : Shown(els[j])
               THEN \E j \in 1..Len(els) :
                      /\ Shown(els[j])
                      /\ \A k \in 1..(j - 1) : ~Shown(els[k])
                      /\ clicks = <<DomOp("optclick", 0, j - 1)>>
                      /\ lines = <<Line("Selected option", trim(els[j].text))>>
               ELSE /\ clicks = <<>>
                    /\ \A i \in 1..Len(lines) : lines[i].msg # "Selected option"]_vars

\* C12 witness: of two option elements the first has a width but no height; the
\* deferred check clicked the second and logged its text without the leading
\* blank.
C12_Witness ==
  /\ Len(doc.optionEls) = 2
  /\ doc.optionEls[1].width # 0
  /\ doc.optionEls[1].height = 0
  /\ doc.optionEls[2] = OptionEl(10, 10, <<" ", "V">>)
  /\ \E r \in RunIds :
       /\ ~run[r].settleTimer
       /\ run[r].ops = <<DomOp("click", 2, 0 - 1), DomOp("optclick", 0, 1)>>
       /\ run[r].log[Len(run[r].log)] = Line("Selected option", <<"V">>)

\* The shell is configured to trigger on load.
TriggerConfigured == config.triggerOnLoad /\ Truthy(config.targetControl)

\* C13: once triggerOnLoad is enabled and a target control id is configured, a
\* run is eventually started (or the configuration is withdrawn), also when
\* executeSelection is never called by the Execute button.
C13_TriggersOnLoad ==
  [](TriggerConfigured => <>(nRuns > 0 \/ ~TriggerConfigured))

\* An attempt of run r's retry phase fails in this step and no retry is left:
\* none is scheduled, and nothing was thrown.
Exhausts(r) ==
  /\ run[r].observer = "none"
  /\ run'[r].attempts = run[r].attempts + 1
  /\ run'[r].faults = run[r].faults
  /\ ~Succeeded(run'[r])
  /\ ~run'[r].retryTimer

\* C14: in either variant of the script, the step in which the retry phase is
\* exhausted without success leaves the run observing: its observer is
\* connected and its observer timeout is scheduled.
C14_HandsOffOnExhaustion ==
  [][\A r \in RunIds :
       Exhausts(r) => (run'[r].observer = "connected" /\ run'[r].obsTimer)]_vars

\* C15: a run with maxRetries = 0 whose first attempt fails has made exactly one
\* attempt when its first step ends, is observing then (observer connected,
\* observer timeout scheduled), and never has a retry timer.
C15_ZeroRetriesObservesAtOnce ==
  [][\A r \in RunIds :
       /\ (/\ Starts(r)
           /\ run'[r].maxRetries = Num(0)
           /\ run'[r].faults = 0
           /\ ~Succeeded(run'[r]))
            => /\ run'[r].attempts = 1
               /\ run'[r].observer = "connected"
               /\ run'[r].obsTimer
       /\ run'[r].maxRetries = Num(0) => ~run'[r].retryTimer]_vars

\* The timers of the retry and observer phases that run R has pending, and
\* whether its mutation watch is live.
LiveTimers(R) == (IF R.retryTimer THEN 1 ELSE 0) + (IF R.obsTimer THEN 1 ELSE 0)
LiveWatch(R) == IF R.observer = "connected" THEN 1 ELSE 0

\* C16 (as stated): a run that has not ended holds at most one live resource:
\* one timer (retry delay or observer timeout) or one mutation watch, never a
\* timer and a watch together and never two timers.
C16_OneTimerOrOneWatch ==
  \A r \in RunIds :
    (run[r].started /\ ~Terminal(run[r]))
      => LiveTimers(run[r]) + LiveWatch(run[r]) <= 1

\* C16 (amended): the retry timer is never pending together with the mutation
\* watch or the observer timeout; a live mutation watch always has its observer
\* timeout pending with it; and the settle timer of a custom attempt is never
\* pending together with the retry timer or a live watch.
C16_RetryAndObserverExclusive ==
  \A r \in RunIds :
    /\ ~(run[r].retryTimer /\ (run[r].obsTimer \/ run[r].observer = "connected"))
    /\ run[r].observer = "connected" => run[r].obsTimer
    /\ ~(run[r].settleTimer /\ (run[r].retryTimer \/ run[r].observer = "connected"))

\* C16 witness: a run in its observer phase after two failed attempts holds its
\* mutation watch and its observer timeout, and no retry timer.
C16_Witness ==
  \E r \in RunIds :
    /\ run[r].attempts = 2
    /\ ~Terminal(run[r])
    /\ run[r].observer = "connected"
    /\ run[r].obsTimer
    /\ ~run[r].retryTimer

\* The observer callback of run r runs on a batch in this step.
DeliverStep(r) == run'[r].batches = run[r].batches + 1

\* The records of the batch that have added nodes.
AddedRecords(recs) == Len(SelectSeq(recs, LAMBDA added : added))

\* C17 (as stated): a delivered batch with at least one record with added nodes
\* causes exactly one call of selectFirstOption, however many such records it
\* has.
C17_OneAttemptPerBatch ==
  [][\A r \in RunIds :
       (DeliverStep(r) /\ AddedRecords(run[r].records) >= 1)
         => run'[r].attempts = run[r].attempts + 1]_vars

\* C17 (amended): a delivered batch with k >= 1 records with added nodes causes
\* one call of selectFirstOption per such record until a call succeeds or
\* throws: at least one call, at most k, and fewer than k only when the run
\* succeeded (its observer is disconnected) or threw in that step.
C17_OneAttemptPerAddedRecord ==
  [][\A r \in RunIds :
       (DeliverStep(r) /\ AddedRecords(run[r].records) >= 1)
         => LET k == AddedRecords(run[r].records)
                n == run'[r].attempts - run[r].attempts
            IN /\ 1 <= n
               /\ n <= k
               /\ n < k => \/ (run'[r].observer = "disconnected" /\ Succeeded(run'[r]))
                           \/ run'[r].faults > run[r].faults]_vars

\* C17 witness: a run with maxRetries = 1 has been given one batch and has made
\* two failed attempts on it after the one of its retry phase.
C17_Witness ==
  \E r \in RunIds :
    /\ run[r].maxRetries = Num(1)
    /\ run[r].batches = 1
    /\ run[r].attempts = 3
    /\ run[r].observer = "connected"

\* C18: a delivered batch in which no record has added nodes causes no call of
\* selectFirstOption: the run's attempts, observer, timers, log and DOM
\* operations are as before, and so is the document.
C18_RemovalsOnlyBatchIsIgnored ==
  [][\A r \in RunIds :
       (DeliverStep(r) /\ AddedRecords(run[r].records) = 0)
         => /\ run'[r] = [run[r] EXCEPT !.records = <<>>, !.batches = @ + 1]
            /\ run[r].observer = "connected"
            /\ doc' = doc]_vars

\* C18 witness: an observing run with maxRetries = 1 has been given a batch and
\* has made no attempt since its retry phase.
C18_Witness ==
  \E r \in RunIds :
    /\ run[r].maxRetries = Num(1)
    /\ run[r].batches = 1
    /\ run[r].attempts = 1
    /\ run[r].records = <<>>
    /\ run[r].observer = "connected"
    /\ run[r].obsTimer

\* C19: while the 200 ms check of a custom attempt of a run is pending, no step
\* makes a further attempt for that run, in its retry phase or in its observer
\* phase; and a step makes more than one attempt for a run only when it
\* delivers a batch, one after the other.
C19_NoAttemptWhileSettling ==
  [][\A r \in RunIds :
       /\ run[r].settleTimer => run'[r].attempts = run[r].attempts
       /\ run'[r].attempts > run[r].attempts + 1 => DeliverStep(r)
       /\ (run'[r].settleTimer /\ ~run[r].settleTimer)
            => /\ Terminal(run'[r])
               /\ ~run'[r].retryTimer
               /\ run'[r].observer # "connected"]_vars

\* C19 witness: the only run opened a custom widget from its observer callback;
\* its 200 ms check is pending, the page has mutated since, and the run has
\* made no further attempt.
C19_Witness ==
  /\ nRuns = 1
  /\ run[1].settleTimer
  /\ run[1].batches = 1
  /\ run[1].observer = "disconnected"
  /\ run[1].attempts = 2
  /\ lateMut

\* C20: when the deferred check of a custom attempt finds no option element with
\* a non-zero width and height, the attempt has failed: after that step the run
\* has not succeeded and goes on, with its retry timer pending or its observer
\* connected.
C20_NoVisibleOptionFailsAttempt ==
  [][\A r \in RunIds :
       (SettleStep(r) /\ \A j \in 1..Len(doc.optionEls) : ~Shown(doc.optionEls[j]))
         => /\ ~Succeeded(run'[r])
            /\ run'[r].retryTimer \/ run'[r].observer = "connected"]_vars

\* C21: the lookups return the element of the first lookup that finds one, in
\* the order data-control-id, aria-label or title, dropdown-shaped element in a
\* control whose text has the id: never the element of a later lookup while an
\* earlier one finds an element, and no element only when none of the three
\* finds one.
C21_ResolverPriority ==
  nout.ret # "none"
    => LET slot == nout.ops[1].slot
       IN IF \A i \in 1..3 : doc.match[i].tag = "none"
          THEN slot = 0 /\ nsel = NoElement /\ nout.ret = "false"
          ELSE /\ slot \in 1..3
               /\ nout.ret = "true"
               /\ nsel = doc.match[slot]
               /\ doc.match[slot].tag # "none"
               /\ \A k \in 1..(slot - 1) : doc.match[k].tag = "none"

\* C21 witness: the second and the third lookup both find an element, the first
\* finds none, and the second's element is returned.
C21_Witness ==
  /\ nout.ret = "true"
  /\ doc.match[1].tag = "none"
  /\ doc.match[2].tag = "DIV"
  /\ doc.match[3].tag = "SELECT"
  /\ nout.ops[1].slot = 2
  /\ nsel.tag = "DIV"

\* Run r makes an attempt in this step.
AttemptStep(r) == run'[r].attempts > run[r].attempts

\* The DOM operations of the kind op among ops.
OpsOf(ops, op) == SelectSeq(ops, LAMBDA o : o.op = op)

\* C22: an attempt that resolves an element with tag name SELECT does not click
\* it and schedules no settle timer (the native branch handles it); an attempt
\* that resolves any other element clicks that element once and schedules the
\* settle timer.
C22_DispatchOnTagName ==
  [][\A r \in RunIds :
       (AttemptStep(r) /\ resolve(doc) # 0)
         => LET slot == resolve(doc)
                new == Appended(run[r].ops, run'[r].ops)
            IN IF doc.match[slot].tag = "SELECT"
               THEN /\ OpsOf(new, "click") = <<>>
                    /\ run'[r].settleTimer = run[r].settleTimer
               ELSE /\ new = <<DomOp("click", slot, 0 - 1)>>
                    /\ run'[r].settleTimer]_vars

\* Run r reports success in this step on a native select found by the lookups.
NativeSuccessStep(r) ==
  /\ AttemptStep(r)
  /\ resolve(doc) # 0
  /\ doc.match[resolve(doc)].tag = "SELECT"
  /\ Succeeded(run'[r])

\* C23: the step of a successful native selection sets selectedIndex to the
\* start index, then dispatches one bubbling change event and then one bubbling
\* input event on the element, and nothing else; the success report is the last
\* line the step logs.
C23_ChangeThenInput ==
  [][\A r \in RunIds :
       NativeSuccessStep(r)
         => LET slot == resolve(doc)
                start == IF FirstIsEmptyEither(doc.match[slot].options) THEN 1 ELSE 0
                new == Appended(run[r].ops, run'[r].ops)
                lines == Appended(run[r].log, run'[r].log)
            IN /\ new = <<DomOp("set", slot, start), EventOp("change", slot, TRUE),
                          EventOp("input", slot, TRUE)>>
               /\ doc'.match[slot].selectedIndex = start
               /\ Len(lines) = 2
               /\ lines[1].msg = "Selected option"
               /\ lines[2].msg \in SuccessMsgs]_vars

\* C23 witness: a run has succeeded from its observer callback on a native
\* select; its operations are the assignment, the change and the input event.
C23_Witness ==
  \E r \in RunIds :
    /\ run[r].batches = 1
    /\ run[r].observer = "disconnected"
    /\ Succeeded(run[r])
    /\ Len(run[r].ops) = 3
    /\ run[r].ops[1].op = "set"
    /\ run[r].ops[2] = EventOp("change", 1, TRUE)
    /\ run[r].ops[3] = EventOp("input", 1, TRUE)

\* The attempt of this step finds no element.
NotFoundStep(r) == AttemptStep(r) /\ resolve(doc) = 0

\* The attempt of this step finds a select that has no options, or none at the
\* index the native branch starts at.
NativeFailureStep(r) ==
  /\ AttemptStep(r)
  /\ resolve(doc) # 0
  /\ doc.match[resolve(doc)].tag = "SELECT"
  /\ ~HasSelectable(doc.match[resolve(doc)].options)

\* Where a failed attempt takes run R0, to R: nothing is thrown or reported; in
\* the retry phase a retry timer is pending while attempts < maxRetries, and
\* else the run is where the variant leaves it on exhaustion; in the observer
\* phase the observer stays as it was.
FailurePath(R0, R) ==
  /\ ~Succeeded(R)
  /\ R.faults = R0.faults
  /\ R.settleTimer = R0.settleTimer
  /\ IF R0.observer = "connected"
     THEN R.observer = "connected" /\ R.obsTimer /\ ~R.retryTimer
     ELSE IF ~R.maxRetries.nan /\ R.attempts < R.maxRetries.val
     THEN R.retryTimer /\ R.observer = "none" /\ ~R.obsTimer
     ELSE /\ ~R.retryTimer
          /\ R.observer = (IF R.hasObserver THEN "connected" ELSE "none")
          /\ R.obsTimer = R.hasObserver

\* C24: an attempt on a select without options, or without an option at the
\* start index, fails: the document (the selected index with it) is unchanged,
\* no event is dispatched and no operation performed, and the run goes the way
\* it goes after an attempt that finds no element.
C24_NativeFailureUntouched ==
  [][\A r \in RunIds :
       /\ NativeFailureStep(r)
            => /\ doc' = doc
               /\ run'[r].ops = run[r].ops
               /\ FailurePath(run[r], run'[r])
       /\ NotFoundStep(r) => FailurePath(run[r], run'[r])]_vars

\* C24 witness: a run has made two attempts on a select without options, the
\* second from its observer callback; nothing was selected or dispatched, and
\* the run is still observing.
C24_Witness ==
  \E r \in RunIds :
    /\ doc.match[1] = Element("SELECT", <<>>)
    /\ doc.match[1].selectedIndex = 0 - 1
    /\ run[r].maxRetries = Num(1)
    /\ run[r].attempts = 2
    /\ run[r].batches = 1
    /\ run[r].ops = <<>>
    /\ run[r].observer = "connected"
    /\ nEnv = 2
    /\ nRuns = 1

\* C25: a run's attempt counter is zero when the run starts and one after its
\* first step, never decreases, and grows by one in every step but a delivery,
\* which adds at most one per record with added nodes; a step that makes an
\* attempt for one run leaves every other run as it was, its counter, timers
\* and observer included.
C25_CounterOwnedByRun ==
  [][\A r \in RunIds :
       /\ run'[r].attempts >= run[r].attempts
       /\ ~run[r].started => run[r].attempts = 0
       /\ Starts(r) => run'[r].attempts = 1
       /\ AttemptStep(r)
            => /\ run'[r].attempts - run[r].attempts
                    <= (IF DeliverStep(r) THEN AddedRecords(run[r].records) ELSE 1)
               /\ \A q \in RunIds \ {r} : run'[q] = run[q]]_vars

\* C25 witness: two runs overlap: the first has its retry timer pending after
\* two attempts, the second its own after one.
C25_Witness ==
  /\ nRuns = 2
  /\ run[1].retryTimer
  /\ run[1].attempts = 2
  /\ run[2].retryTimer
  /\ run[2].attempts = 1

\* C26: over the life of the mounted shell the host's initialize (and with it
\* configureEditorPanel and config.subscribe) is called at most once.
C26_InitializeAtMostOnce == nInitialize <= 1

\* The run has set a selectedIndex or clicked an option element.
HasSelected(R) == OpsOf(R.ops, "set") # <<>> \/ OpsOf(R.ops, "optclick") # <<>>

\* A success report of the run stands before a log line of the deferred check
\* that found no visible option.
FailsAfterSuccess(R) ==
  \E i, j \in 1..Len(R.log) :
    /\ i < j
    /\ R.log[i].msg \in SuccessMsgs
    /\ R.log[j].msg = "No visible options found after opening dropdown"

\* C27: a run that has reported success ("Selection completed successfully" or
\* "Selection completed via DOM observer") has by then selected an option (set
\* a selectedIndex or clicked an option element), and no "No visible options
\* found" line of the same run follows a success report.
C27_SuccessMeansSelected ==
  \A r \in RunIds :
    /\ Succeeded(run[r]) => HasSelected(run[r])
    /\ ~FailsAfterSuccess(run[r])

\* The run is live: started, not ended, with a retry timer pending or its
\* observer watching.
Live(R) == R.started /\ ~Terminal(R) /\ (R.retryTimer \/ R.observer = "connected")
LiveRuns == {r \in RunIds : Live(run[r])}

\* The shell shows the run as finished.
ShownFinished ==
  /\ ~isLoading
  /\ status \in {"Auto-selection executed", "Auto-selection script executed"}

\* C28: at most one run of the shell is live at any time, and while the shell
\* shows the run as finished (the executed status, isLoading false) no run is
\* live.
C28_OneLiveRun ==
  /\ Cardinality(LiveRuns) <= 1
  /\ ShownFinished => LiveRuns = {}

\* C29: every option element clicked by the deferred check of the custom
\* branch descends from the element the resolver returned for the attempt
\* (here the widget of the second lookup); an option-shaped element of another
\* widget is never clicked.
C29_ClicksOwnOption ==
  \A r \in RunIds :
    \A i \in 1..Len(run[r].ops) :
      run[r].ops[i].op = "optclick"
        => doc.optionEls[run[r].ops[i].idx + 1].owner = resolve(doc)

\* Run r's retry phase ends without success in this step: trySelectWithRetry
\* logs that no retry is left.
RetryPhaseEnds(r) ==
  \E i \in 1..Len(Appended(run[r].log, run'[r].log)) :
    Appended(run[r].log, run'[r].log)[i].msg = "Max retry attempts reached"

\* C30: while a retry timer of a run is scheduled, the number of the attempt
\* it announces (attempts + 1) is at most maxRetries; and in the step that ends
\* the retry phase without success the run's attempt counter is
\* max(maxRetries, 1), for every integer maxRetries >= 0.
C30_RetryPhaseBound ==
  [][\A r \in RunIds :
       /\ run'[r].retryTimer
            => /\ ~run'[r].maxRetries.nan
               /\ run'[r].attempts + 1 <= run'[r].maxRetries.val
       /\ (RetryPhaseEnds(r) /\ ~run'[r].maxRetries.nan /\ run'[r].maxRetries.val >= 0)
            => run'[r].attempts = Max(run'[r].maxRetries.val, 1)]_vars

\* C30 witness: a run with maxRetries = 0 has ended its retry phase after one
\* attempt while a run with maxRetries = 2 waits for its second attempt.
C30_Witness ==
  \E r, q \in RunIds :
    /\ run[r].maxRetries = Num(0)
    /\ run[r].attempts = 1
    /\ \E i \in 1..Len(run[r].log) : run[r].log[i].msg = "Max retry attempts reached"
    /\ run[q].maxRetries = Num(2)
    /\ run[q].attempts = 1
    /\ run[q].retryTimer

\* C31: for one config and one sequence of documents, the script of
\* createScript (run 1) and the script of generateControlScript (run 2) have
\* made the same resolver invocations (attempts), the same element clicks,
\* selected-index writes and event dispatches (ops), and have the same retry
\* timer pending, in every state up to the exhaustion of the retry budget or a
\* successful attempt.
C31_VariantsAgreeInRetryPhase ==
  /\ run[1].started = run[2].started
  /\ run[1].attempts = run[2].attempts
  /\ run[1].ops = run[2].ops
  /\ run[1].retryTimer = run[2].retryTimer

====
